---- MODULE Spec2Model ----
(***************************************************************************)
(* Model of the request path of the PowerPoint task pane:                  *)
(*   UsableChatEmbed.handleMessage (embed-sdk)  ->  onToolCall             *)
(*   -> handlePptxToolCall (pptx-tools)  ->  serializeExecution            *)
(*   -> handler(args) (PowerPoint.run)                                     *)
(* The JavaScript event loop is modelled explicitly: a macrotask (a        *)
(* message event listener, the settlement of PowerPoint.run, a timer)      *)
(* starts only when the microtask queue is empty, and every promise        *)
(* reaction is one job of the FIFO microtask queue.                        *)
(***************************************************************************)
EXTENDS Integers, Sequences, FiniteSets, TLC

\* ------------------------------------------------------------------------
\* Bounds of the model
\* ------------------------------------------------------------------------
MaxCalls == 2          \* messages posted to the window
MaxDirect == 2         \* direct calls of handlePptxToolCall
MaxShapes == 3         \* shapes on the slide at the start
TickMs == 30000        \* the longest step of the clock (ms)
MaxEvents == 3         \* events of a ChatPane: mounts, token changes, onReady calls, messages
MaxRefreshes == 2      \* calls of refreshAccessToken

\* ------------------------------------------------------------------------
\* Program constants
\* ------------------------------------------------------------------------
RetentionMs == 30000   \* setTimeout(..., 30000) in handleMessage

\* elapsed times are kept up to this value: all that is ever compared is an
\* elapsed time with RetentionMs
AgeCap == RetentionMs + 1

Embeds == {"m1", "m2"}                 \* the two mounted listeners, in the
EmbedOrder == <<"m1", "m2">>           \* order they were added to window
RequestIds == {"r1", "r2"}
ToolNames == {"add_slide", "set_table_data"}     \* two keys of handlerMap

\* args values as the iframe may post them: an ordered list of members;
\* a member may hold the value undefined (structured clone keeps it)
ArgsRow0 == << <<"row", "0">> >>
ArgsRow0Undef == << <<"row", "0">>, <<"text", "undefined">> >>

\* the (tool, args) pairs a TOOL_CALL may carry
Requests == { <<"add_slide", ArgsRow0>>,
              <<"add_slide", ArgsRow0Undef>>,
              <<"set_table_data", ArgsRow0>>,
              <<"no_such_tool", ArgsRow0>> }

\* const IFRAME_ORIGIN = "https://chat.usable.dev" (useChatEmbed)
IFRAME_ORIGIN == "https://chat.usable.dev"

\* another origin a message event may come from
OtherOrigin == "https://other.example"

\* type tags of the protocol (the cases of the switch in handleMessage)
KnownTypes == {"READY", "TOOL_CALL", "REQUEST_TOKEN_REFRESH", "ERROR",
               "CONVERSATION_CHANGED"}

\* JSON.stringify(args): members are written in order, a member whose
\* value is undefined is left out
JSONstringify(args) == SelectSeq(args, LAMBDA m : m[2] # "undefined")

\* const key = `${toolName}:${JSON.stringify(args)}`
KeyOf(toolName, args) == <<toolName, ":", JSONstringify(args)>>

\* (mutant) every tool name is taken to have a handler
HasHandlerAny(toolName) == TRUE

\* handlerMap.get(toolName) is defined
HasHandler(toolName) == toolName \in ToolNames

Pending == [kind |-> "pending", src |-> 0]
Fulfilled(e) == [kind |-> "ok", src |-> e]
Rejected(e) == [kind |-> "err", src |-> e]
UnknownToolError == [kind |-> "err", src |-> 0]

Min(a, b) == IF a <= b THEN a ELSE b

\* null, and the access tokens the auth hook may hand out
Null == "null"
Tokens == {"t1", "t2"}

\* no promise
NoPromise == [kind |-> "none", embed |-> 0, value |-> Null]

\* the presentation has one slide, at index 0; a shape as Office.js exposes
\* it: id, name, type, position and size in points, and its text
Shape(i) ==
  [id |-> 100 + i, name |-> "TextBox", type |-> "GeometricShape",
   left |-> 0, top |-> 0, width |-> 100, height |-> 50, text |-> "t"]

InitialShapes == [i \in 1..MaxShapes |-> Shape(i)]

\* no handler has run yet
NoRun == [tool |-> "none", args |-> <<>>, before |-> <<>>, ok |-> TRUE,
          result |-> <<>>]

VARIABLES
  posted,             \* number of messages posted so far
  dispatch,           \* listeners of the current message event still to run
  microtasks,         \* FIFO queue of promise reaction jobs
  options,            \* per embed: is options.onToolCall configured
  handledRequestIds,  \* per embed: Set<string>
  timers,             \* pending setTimeout callbacks
  inFlightCalls,      \* Map key -> promise, as pairs <<key, execution>>
  executionChain,     \* the execution whose neutralised promise is the tail
  execs,              \* one record per serializeExecution call
  callers,            \* one record per onToolCall invocation
  outbox,             \* messages posted to the iframe, in order
  handlerLog,         \* history: executions in the order their handler began
  admittedAge,        \* history: per embed and requestId, ms since the admission of a
                      \* requestId that is in handledRequestIds (else -1)
  shapes,             \* the document: the shapes of the slide, in order
  lastRun,            \* the last handler run on the document and its result
  embeds,             \* the UsableChatEmbed instances, in order of construction
  embedRef,           \* embedRef.current of useChatEmbed: an instance, 0 for null
  accessTokenRef,     \* accessTokenRef.current of useChatEmbed
  regs,               \* history: the callbacks given to onReady and their runs
  promises,           \* the promises the instances and the hook wait for
  sent,               \* the messages the last step posted to the iframe
  invoked,            \* the callbacks the last step invoked
  settled,            \* the promise the last step settled
  events,             \* number of mounts, token changes, onReady calls and messages
  state,              \* useAuth: the auth state
  accessToken,        \* useAuth: the access token, Null for null
  stored,             \* localStorage[RT_KEY]: the refresh token, Null if none
  refreshTimer,       \* is the timer of scheduleRefresh pending
  tokenFresh,         \* is tokenExpiresAtRef more than 60 s ahead
  refreshes,          \* the calls of refreshAccessToken, in order
  dialog,             \* is the login dialog open
  rendered,           \* history: <<state, accessToken>> of each render of the last step
  loggedOut           \* history: logout() was called and no login has succeeded since

vars == <<posted, dispatch, microtasks, options, handledRequestIds,
          timers, inFlightCalls, executionChain, execs, callers, outbox,
          handlerLog, admittedAge, shapes, lastRun, embeds, embedRef,
          accessTokenRef, regs, promises, sent, invoked, settled, events,
          state,
          accessToken, stored, refreshTimer, tokenFresh, refreshes, dialog,
          rendered, loggedOut>>

\* the request path, and the document the handlers work on
bridgeVars == <<posted, dispatch, microtasks, options, handledRequestIds,
                timers, inFlightCalls, executionChain, execs, callers,
                outbox, handlerLog, admittedAge>>
toolVars == <<shapes, lastRun>>
\* the instances useChatEmbed constructs, and the auth hook
embedVars == <<embeds, embedRef, accessTokenRef, regs, promises, sent,
               invoked, settled, events>>
authVars == <<state, accessToken, stored, refreshTimer, tokenFresh,
             refreshes, dialog, rendered, loggedOut>>
paneVars == <<embedVars, authVars>>

Init ==
  /\ posted = 0
  /\ dispatch = <<>>
  /\ microtasks = <<>>
  /\ options \in {f \in [Embeds -> BOOLEAN] : f["m1"]}
  /\ handledRequestIds = [m \in Embeds |-> {}]
  /\ timers = {}
  /\ inFlightCalls = {}
  /\ executionChain = 0
  /\ execs = <<>>
  /\ callers = <<>>
  /\ outbox = <<>>
  /\ handlerLog = <<>>
  /\ admittedAge = [m \in Embeds |-> [r \in RequestIds |-> -1]]
  /\ shapes = InitialShapes
  /\ lastRun = NoRun
  /\ embeds = <<>>
  /\ embedRef = 0
  /\ accessTokenRef = Null
  /\ regs = <<>>
  /\ promises = <<>>
  /\ sent = <<>>
  /\ invoked = <<>>
  /\ settled = NoPromise
  /\ events = 0
  /\ state = "restoring"
  /\ accessToken = Null
  /\ stored = Null
  /\ refreshTimer = FALSE
  /\ tokenFresh = FALSE
  /\ refreshes = <<>>
  /\ dialog = FALSE
  /\ rendered = <<>>
  /\ loggedOut = FALSE

Job(kind, id) == [kind |-> kind, id |-> id]

\* an event-loop task may start: no microtask is left
Idle == microtasks = <<>>

\* ------------------------------------------------------------------------
\* pptx-tools: inFlightCalls, executionChain, serializeExecution
\* ------------------------------------------------------------------------

\* (mutant) the lookup of an in-flight call is missing
InFlightGetNone(ifc, key) == 0

\* inFlightCalls.get(key): the execution registered under key, 0 if none
InFlightGet(ifc, key) ==
  IF \E p \in ifc : p[1] = key THEN (CHOOSE p \in ifc : p[1] = key)[2] ELSE 0

\* (mutant) the promise is not registered
InFlightSetLost(ifc, key, e) == ifc

\* inFlightCalls.set(key, promise)
InFlightSet(ifc, key, e) == {p \in ifc : p[1] # key} \cup {<<key, e>>}

\* (mutant) the key is never deleted: a permanent memoisation
InFlightDeleteNever(ifc, key, outcome) == ifc

\* (mutant) the key is deleted by the fulfilment callback only
InFlightDeleteOnSuccess(ifc, key, outcome) ==
  IF outcome.kind = "ok" THEN {p \in ifc : p[1] # key} ELSE ifc

\* inFlightCalls.delete(key), run by both callbacks of the .then at the
\* end of handlePptxToolCall whatever the outcome is
InFlightDelete(ifc, key, outcome) == {p \in ifc : p[1] # key}

\* (mutant) result.then(() => undefined) without the rejection callback:
\* the rejection of result passes into the chain
ChainValueRethrow(result) ==
  IF result.kind = "err" THEN result ELSE [kind |-> "ok", src |-> 0]

\* the value executionChain settles with: result.then(() => undefined,
\* () => undefined) fulfils with undefined after a fulfilment and after a
\* rejection of result
ChainValue(result) == [kind |-> "ok", src |-> 0]

\* (mutant) every unit is chained on a fresh resolved promise
ChainOfResolved(ex, e) == [kind |-> "ok", src |-> 0]

\* the promise executionChain refers to, before any call: Promise.resolve()
ChainOf(ex, e) == IF e = 0 THEN [kind |-> "ok", src |-> 0] ELSE ex[e].chain

\* (mutant) a reaction added to an already settled promise is never queued
ChainSettledNever(ex, e) == FALSE

\* (mutant) the reaction does not wait for the chain promise
ChainSettledAlways(ex, e) == TRUE

\* executionChain.then(() => fn()) queues its reaction at once when the
\* chain promise is already settled, otherwise it waits for the settlement
ChainSettled(ex, e) == ChainOf(ex, e).kind # "pending"

\* (mutant) the assignment to executionChain is lost: the tail stays
NextChainStale(tail, n) == tail

\* executionChain = result.then(...): the tail moves to the new execution
NextChain(tail, n) == n

\* the record of a new execution created by serializeExecution
NewExec(tool, args, prev) ==
  [tool |-> tool, args |-> args, key |-> KeyOf(tool, args), prev |-> prev,
   unit |-> "queued", handler |-> Pending, result |-> Pending,
   chain |-> Pending, promise |-> Pending, waiters |-> <<>>]

\* the record of a new onToolCall invocation; msg: the number of the message
\* event the listener was run for (history)
NewCaller(m, r, tool, args, e, n) ==
  [embed |-> m, requestId |-> r, tool |-> tool, args |-> args, exec |-> e,
   outcome |-> Pending, stage |-> "awaiting", msg |-> n]

\* ------------------------------------------------------------------------
\* embed-sdk: UsableChatEmbed.handleMessage, case "TOOL_CALL"
\* ------------------------------------------------------------------------

\* (mutant) the deduplication check is missing
IsDuplicateNever(handled, m, r) == FALSE

\* if (this.handledRequestIds.has(requestId)) return;
IsDuplicate(handled, m, r) == r \in handled[m]

\* this.iframeOrigin = options.iframeOrigin ?? "*": an embed mounted by
\* useChatEmbed (the one with onToolCall) is given IFRAME_ORIGIN, an embed
\* constructed without options validates no origin
IframeOriginOf(opts, m) == IF opts[m] THEN IFRAME_ORIGIN ELSE "*"

\* this.iframe.contentWindow: the embeds of a double mount hold the same
\* iframe element
ContentWindow(m) == "iframe"

\* (mutant) the origin is not validated
OriginOkAlways(opts, m, d) == TRUE

\* not (this.iframeOrigin !== "*" && event.origin !== this.iframeOrigin)
OriginOk(opts, m, d) ==
  ~(IframeOriginOf(opts, m) # "*" /\ d.origin # IframeOriginOf(opts, m))

\* not (event.source !== this.iframe.contentWindow)
SourceOk(m, d) == d.source = ContentWindow(m)

\* not (!data || typeof data !== "object" || !data.type)
HasType(d) == d.type # ""

\* (mutant) every type tag is handled like TOOL_CALL
IsToolCallAny(d) == TRUE

\* case "TOOL_CALL" of switch (data.type)
IsToolCall(d) == d.type = "TOOL_CALL"

\* a message event as one listener receives it
Delivery(m, origin, source, type, r, tool, args) ==
  [embed |-> m, requestId |-> r, tool |-> tool, args |-> args,
   origin |-> origin, source |-> source, type |-> type]

\* messages other than a TOOL_CALL of the chat iframe: a TOOL_CALL from
\* another origin, a TOOL_CALL from another window, a message with a type
\* tag the switch does not know, a message without a type
OtherMessages ==
  { <<OtherOrigin, "iframe", "TOOL_CALL">>,
    <<IFRAME_ORIGIN, "other", "TOOL_CALL">>,
    <<IFRAME_ORIGIN, "iframe", "PING">>,
    <<IFRAME_ORIGIN, "iframe", "">> }

\* the iframe posts one TOOL_CALL; the window dispatches the event to every
\* registered listener, in registration order. The requestIds are
\* interchangeable: the first message is taken to carry "r1".
PostToolCall(r, tool, args) ==
  /\ Idle
  /\ dispatch = <<>>
  /\ posted < MaxCalls
  /\ posted = 0 => r = "r1"
  /\ posted' = posted + 1
  /\ dispatch' = [i \in 1..Len(EmbedOrder) |->
                    Delivery(EmbedOrder[i], IFRAME_ORIGIN, "iframe",
                             "TOOL_CALL", r, tool, args)]
  /\ UNCHANGED <<microtasks, options, handledRequestIds, timers,
                 inFlightCalls, executionChain, execs, callers, outbox,
                 handlerLog, admittedAge>>
  /\ UNCHANGED <<toolVars, paneVars>>

\* some window posts another message; it is dispatched like every message
PostOther(o, r) ==
  /\ Idle
  /\ dispatch = <<>>
  /\ posted < MaxCalls
  /\ posted = 0 => r = "r1"
  /\ posted' = posted + 1
  /\ dispatch' = [i \in 1..Len(EmbedOrder) |->
                    Delivery(EmbedOrder[i], o[1], o[2], o[3], r,
                             "add_slide", ArgsRow0)]
  /\ UNCHANGED <<microtasks, options, handledRequestIds, timers,
                 inFlightCalls, executionChain, execs, callers, outbox,
                 handlerLog, admittedAge>>
  /\ UNCHANGED <<toolVars, paneVars>>

\* handlePptxToolCall(tool, args) called from onToolCall for caller c:
\* the state it leaves, as <<inFlightCalls, executionChain, execs, jobs, exec>>
HandlePptxToolCall(tool, args, c) ==
  LET key == KeyOf(tool, args)
      existing == InFlightGet(inFlightCalls, key)
      n == Len(execs) + 1
  IN IF ~HasHandler(tool)
       THEN <<inFlightCalls, executionChain, execs,
              <<Job("callerSettle", c)>>, 0>>
     ELSE IF existing # 0
       THEN <<inFlightCalls, executionChain, execs,
              <<Job("attach", c)>>, existing>>
     ELSE <<InFlightSet(inFlightCalls, key, n), NextChain(executionChain, n),
            Append(execs, NewExec(tool, args, executionChain)),
            (IF ChainSettled(execs, executionChain)
               THEN <<Job("startUnit", n)>> ELSE <<>>)
              \o <<Job("attach", c)>>,
            n>>

\* one listener runs handleMessage on the message event
HandleMessage ==
  /\ Idle
  /\ dispatch # <<>>
  /\ LET d == Head(dispatch)
         m == d.embed
         r == d.requestId
         c == Len(callers) + 1
         h == HandlePptxToolCall(d.tool, d.args, c)
     IN /\ dispatch' = Tail(dispatch)
        /\ IF \/ ~OriginOk(options, m, d)
              \/ ~SourceOk(m, d)
              \/ ~HasType(d)
              \/ ~IsToolCall(d)
              \/ IsDuplicate(handledRequestIds, m, r)
             THEN UNCHANGED <<handledRequestIds, admittedAge, inFlightCalls,
                              executionChain, execs, callers, microtasks>>
             ELSE /\ handledRequestIds' =
                       [handledRequestIds EXCEPT ![m] = @ \cup {r}]
                  /\ admittedAge' = [admittedAge EXCEPT ![m][r] = 0]
                  /\ IF options[m]
                       THEN /\ inFlightCalls' = h[1]
                            /\ executionChain' = h[2]
                            /\ execs' = h[3]
                            /\ microtasks' = microtasks \o h[4]
                            /\ callers' = Append(callers,
                                 NewCaller(m, r, d.tool, d.args, h[5], posted))
                       ELSE UNCHANGED <<inFlightCalls, executionChain, execs,
                                        callers, microtasks>>
  /\ UNCHANGED <<posted, options, timers, outbox, handlerLog>>
  /\ UNCHANGED <<toolVars, paneVars>>

\* ------------------------------------------------------------------------
\* Promise reaction jobs
\* ------------------------------------------------------------------------
HeadIs(kind) == microtasks # <<>> /\ Head(microtasks).kind = kind

\* reaction of executionChain.then(() => fn()): with the predecessor
\* fulfilled the handler is called; a rejected predecessor would pass its
\* reason on to result without calling fn
StartUnit ==
  /\ HeadIs("startUnit")
  /\ LET e == Head(microtasks).id
         pc == ChainOf(execs, execs[e].prev)
     IN IF pc.kind = "ok"
          THEN /\ execs' = [execs EXCEPT ![e].unit = "running"]
               /\ handlerLog' = Append(handlerLog, e)
               /\ microtasks' = Tail(microtasks)
          ELSE /\ execs' = [execs EXCEPT ![e].unit = "skipped",
                                         ![e].result = pc]
               /\ handlerLog' = handlerLog
               /\ microtasks' = Tail(microtasks)
                    \o <<Job("chainAdvance", e), Job("cleanup", e)>>
  /\ UNCHANGED <<posted, dispatch, options, handledRequestIds, timers,
                 inFlightCalls, executionChain, callers, outbox, admittedAge>>
  /\ UNCHANGED <<toolVars, paneVars>>

\* PowerPoint.run settles the promise the handler returned
HandlerSettle(e, ok) ==
  /\ Idle
  /\ dispatch = <<>>
  /\ e \in 1..Len(execs)
  /\ execs[e].unit = "running"
  /\ execs[e].handler = Pending
  /\ execs' = [execs EXCEPT ![e].handler =
                 IF ok THEN Fulfilled(e) ELSE Rejected(e)]
  /\ microtasks' = microtasks \o <<Job("resultSettle", e)>>
  /\ UNCHANGED <<posted, dispatch, options, handledRequestIds, timers,
                 inFlightCalls, executionChain, callers, outbox, handlerLog,
                 admittedAge>>
  /\ UNCHANGED <<toolVars, paneVars>>

\* result (= executionChain.then(() => fn())) follows the handler's promise;
\* its two reactions were registered in this order: line 924, then line 944
ResultSettle ==
  /\ HeadIs("resultSettle")
  /\ LET e == Head(microtasks).id
     IN /\ execs' = [execs EXCEPT ![e].result = execs[e].handler,
                                  ![e].unit = "settled"]
        /\ microtasks' = Tail(microtasks)
             \o <<Job("chainAdvance", e), Job("cleanup", e)>>
  /\ UNCHANGED <<posted, dispatch, options, handledRequestIds, timers,
                 inFlightCalls, executionChain, callers, outbox, handlerLog,
                 admittedAge>>
  /\ UNCHANGED <<toolVars, paneVars>>

\* executionChain = result.then(() => undefined, () => undefined) settles
\* and releases the unit chained behind it
ChainAdvance ==
  /\ HeadIs("chainAdvance")
  /\ LET e == Head(microtasks).id
         next == {f \in 1..Len(execs) : execs[f].prev = e}
     IN /\ execs' = [execs EXCEPT ![e].chain = ChainValue(execs[e].result)]
        /\ microtasks' = Tail(microtasks)
             \o (IF next = {} THEN <<>>
                 ELSE <<Job("startUnit", CHOOSE f \in next : TRUE)>>)
  /\ UNCHANGED <<posted, dispatch, options, handledRequestIds, timers,
                 inFlightCalls, executionChain, callers, outbox, handlerLog,
                 admittedAge>>
  /\ UNCHANGED <<toolVars, paneVars>>

\* the .then at the end of handlePptxToolCall: delete the key, then settle
\* the promise the callers hold
\* (mutant) only the first of the promises that adopted the settled one is
\* settled
JobsForFirst(kind, ids) ==
  IF ids = <<>> THEN <<>> ELSE <<Job(kind, Head(ids))>>

RECURSIVE JobsFor(_, _)
JobsFor(kind, ids) ==
  IF ids = <<>> THEN <<>>
  ELSE <<Job(kind, Head(ids))>> \o JobsFor(kind, Tail(ids))

Cleanup ==
  /\ HeadIs("cleanup")
  /\ LET e == Head(microtasks).id
     IN /\ inFlightCalls' =
             InFlightDelete(inFlightCalls, execs[e].key, execs[e].result)
        /\ execs' = [execs EXCEPT ![e].promise = execs[e].result,
                                  ![e].waiters = <<>>]
        /\ microtasks' = Tail(microtasks)
             \o JobsFor("callerSettle", execs[e].waiters)
  /\ UNCHANGED <<posted, dispatch, options, handledRequestIds, timers,
                 executionChain, callers, outbox, handlerLog, admittedAge>>
  /\ UNCHANGED <<toolVars, paneVars>>

\* the promise of the async function handlePptxToolCall adopts the promise
\* it returned (promise or existing)
Attach ==
  /\ HeadIs("attach")
  /\ LET c == Head(microtasks).id
         e == callers[c].exec
     IN IF execs[e].promise = Pending
          THEN /\ execs' = [execs EXCEPT ![e].waiters = Append(@, c)]
               /\ microtasks' = Tail(microtasks)
          ELSE /\ execs' = execs
               /\ microtasks' = Tail(microtasks) \o <<Job("callerSettle", c)>>
  /\ UNCHANGED <<posted, dispatch, options, handledRequestIds, timers,
                 inFlightCalls, executionChain, callers, outbox, handlerLog,
                 admittedAge>>
  /\ UNCHANGED <<toolVars, paneVars>>

\* the promise onToolCall returned settles
CallerSettle ==
  /\ HeadIs("callerSettle")
  /\ LET c == Head(microtasks).id
         e == callers[c].exec
     IN /\ callers' = [callers EXCEPT
             ![c].outcome = IF e = 0 THEN UnknownToolError
                            ELSE execs[e].promise,
             ![c].stage = "settled"]
        /\ microtasks' = Tail(microtasks) \o <<Job("respond", c)>>
  /\ UNCHANGED <<posted, dispatch, options, handledRequestIds, timers,
                 inFlightCalls, executionChain, execs, outbox, handlerLog,
                 admittedAge>>
  /\ UNCHANGED <<toolVars, paneVars>>

\* (mutant) the response is keyed by the requestId of the first call
ToolResponseFirstId(c) ==
  [type |-> "TOOL_RESPONSE", embed |-> callers[c].embed,
   requestId |-> callers[1].requestId,
   success |-> callers[c].outcome.kind = "ok",
   src |-> callers[c].outcome.src]

\* (mutant) the rejection is answered like a fulfilment
ToolResponseAlwaysOk(c) ==
  [type |-> "TOOL_RESPONSE", embed |-> callers[c].embed,
   requestId |-> callers[c].requestId,
   success |-> TRUE,
   src |-> callers[c].outcome.src]

\* .then(result => respondToToolCall(requestId, {success: true, result}))
\* .catch(err => respondToToolCall(requestId, {success: false, error}))
ToolResponse(c) ==
  [type |-> "TOOL_RESPONSE", embed |-> callers[c].embed,
   requestId |-> callers[c].requestId,
   success |-> callers[c].outcome.kind = "ok",
   src |-> callers[c].outcome.src]

Respond ==
  /\ HeadIs("respond")
  /\ LET c == Head(microtasks).id
     IN /\ outbox' = Append(outbox, ToolResponse(c))
        /\ callers' = [callers EXCEPT ![c].stage = "responded"]
        /\ microtasks' = Tail(microtasks) \o <<Job("finally", c)>>
  /\ UNCHANGED <<posted, dispatch, options, handledRequestIds, timers,
                 inFlightCalls, executionChain, execs, handlerLog, admittedAge>>
  /\ UNCHANGED <<toolVars, paneVars>>

\* .finally(() => setTimeout(() => handledRequestIds.delete(requestId), 30000))
\* (mutant) setTimeout without its delay
SetTimeoutNoDelay(ts, m, r, delay) ==
  ts \cup {[embed |-> m, requestId |-> r, remaining |-> 0]}

\* setTimeout(() => this.handledRequestIds.delete(requestId), delay)
SetTimeout(ts, m, r, delay) ==
  ts \cup {[embed |-> m, requestId |-> r, remaining |-> delay]}

\* .finally(() => setTimeout(..., 30000))
Finally ==
  /\ HeadIs("finally")
  /\ LET c == Head(microtasks).id
         m == callers[c].embed
         r == callers[c].requestId
     IN /\ timers' = SetTimeout(timers, m, r, RetentionMs)
        /\ callers' = [callers EXCEPT ![c].stage = "finalised"]
        /\ microtasks' = Tail(microtasks)
  /\ UNCHANGED <<posted, dispatch, options, handledRequestIds,
                 inFlightCalls, executionChain, execs, outbox, handlerLog,
                 admittedAge>>
  /\ UNCHANGED <<toolVars, paneVars>>

\* ------------------------------------------------------------------------
\* Timers and the clock
\* ------------------------------------------------------------------------

\* the timer callback: this.handledRequestIds.delete(requestId)
TimerFire(t) ==
  /\ Idle
  /\ dispatch = <<>>
  /\ t \in timers
  /\ t.remaining = 0
  /\ timers' = timers \ {t}
  /\ handledRequestIds' = [handledRequestIds EXCEPT ![t.embed] = @ \ {t.requestId}]
  /\ admittedAge' = [admittedAge EXCEPT ![t.embed][t.requestId] = -1]
  /\ UNCHANGED <<posted, dispatch, microtasks, options, inFlightCalls,
                 executionChain, execs, callers, outbox, handlerLog>>
  /\ UNCHANGED <<toolVars, paneVars>>

RECURSIVE MinOf(_, _)
MinOf(S, d) ==
  IF S = {} THEN d
  ELSE LET x == CHOOSE x \in S : TRUE IN MinOf(S \ {x}, Min(x, d))

\* an elapsed time a, dt later (-1: the event has not happened)
Aged(a, dt) == IF a < 0 THEN a ELSE Min(a + dt, AgeCap)

\* time passes between tasks (the clock starts with the first message): at
\* most TickMs at once, and not beyond the moment the next timer is due; a
\* timer that is due runs before time moves on
Tick ==
  /\ Idle
  /\ dispatch = <<>>
  /\ posted > 0
  /\ \A t \in timers : t.remaining > 0
  /\ LET dt == MinOf({t.remaining : t \in timers}, TickMs)
     IN /\ timers' = {[t EXCEPT !.remaining = @ - dt] : t \in timers}
        /\ admittedAge' = [m \in Embeds |-> [r \in RequestIds |->
                             Aged(admittedAge[m][r], dt)]]
  /\ UNCHANGED <<posted, dispatch, microtasks, options, handledRequestIds,
                 inFlightCalls, executionChain, execs, callers, outbox,
                 handlerLog>>
  /\ UNCHANGED <<toolVars, paneVars>>

Next ==
  \/ \E r \in RequestIds, q \in Requests : PostToolCall(r, q[1], q[2])
  \/ \E o \in OtherMessages, r \in RequestIds : PostOther(o, r)
  \/ HandleMessage
  \/ StartUnit
  \/ \E e \in 1..Len(execs), ok \in BOOLEAN : HandlerSettle(e, ok)
  \/ ResultSettle
  \/ ChainAdvance
  \/ Cleanup
  \/ Attach
  \/ CallerSettle
  \/ Respond
  \/ Finally
  \/ \E t \in timers : TimerFire(t)
  \/ Tick

Spec == Init /\ [][Next]_vars

\* The event loop runs every queued job, listener and due timer, and time
\* passes. PowerPoint.run is assumed to settle every call it was given (the
\* code has no guarantee of that; the assumption favours the liveness
\* claims). The iframe is not obliged to post anything.
FairSpec ==
  /\ Spec
  /\ WF_vars(HandleMessage)
  /\ WF_vars(StartUnit)
  /\ WF_vars(\E e \in 1..Len(execs), ok \in BOOLEAN : HandlerSettle(e, ok))
  /\ WF_vars(ResultSettle)
  /\ WF_vars(ChainAdvance)
  /\ WF_vars(Cleanup)
  /\ WF_vars(Attach)
  /\ WF_vars(CallerSettle)
  /\ WF_vars(Respond)
  /\ WF_vars(Finally)
  /\ WF_vars(\E t \in timers : TimerFire(t))
  /\ WF_vars(Tick)

\* ------------------------------------------------------------------------
\* handlePptxToolCall called directly
\* ------------------------------------------------------------------------
\* handlePptxToolCall is an exported function. A caller may call it from any
\* task and from any promise reaction, several times in a row: a call is
\* possible between any two jobs of the microtask queue.

\* the record of a direct call; begunBefore: the number of handlers that
\* had begun when the call was made (history)
DirectCaller(tool, args, e, k) ==
  [tool |-> tool, args |-> args, exec |-> e, outcome |-> Pending,
   stage |-> "awaiting", begunBefore |-> k]

DirectCall(tool, args) ==
  /\ Len(callers) < MaxDirect
  /\ LET c == Len(callers) + 1
         h == HandlePptxToolCall(tool, args, c)
     IN /\ inFlightCalls' = h[1]
        /\ executionChain' = h[2]
        /\ execs' = h[3]
        /\ microtasks' = microtasks \o h[4]
        /\ callers' = Append(callers,
                         DirectCaller(tool, args, h[5], Len(handlerLog)))
  /\ UNCHANGED <<posted, dispatch, options, handledRequestIds, timers,
                 outbox, handlerLog, admittedAge>>
  /\ UNCHANGED <<toolVars, paneVars>>

\* the promise handlePptxToolCall returned to a direct caller settles
DirectSettle ==
  /\ HeadIs("callerSettle")
  /\ LET c == Head(microtasks).id
         e == callers[c].exec
     IN /\ callers' = [callers EXCEPT
             ![c].outcome = IF e = 0 THEN UnknownToolError
                            ELSE execs[e].promise,
             ![c].stage = "settled"]
        /\ microtasks' = Tail(microtasks)
  /\ UNCHANGED <<posted, dispatch, options, handledRequestIds, timers,
                 inFlightCalls, executionChain, execs, outbox, handlerLog,
                 admittedAge>>
  /\ UNCHANGED <<toolVars, paneVars>>

QueueNext ==
  \/ \E q \in Requests : DirectCall(q[1], q[2])
  \/ StartUnit
  \/ \E e \in 1..Len(execs), ok \in BOOLEAN : HandlerSettle(e, ok)
  \/ ResultSettle
  \/ ChainAdvance
  \/ Cleanup
  \/ Attach
  \/ DirectSettle

QueueSpec == Init /\ [][QueueNext]_vars

\* every queued job runs, and PowerPoint.run settles every call it was
\* given: every unit that has begun settles
QueueFairSpec ==
  /\ QueueSpec
  /\ WF_vars(StartUnit)
  /\ WF_vars(\E e \in 1..Len(execs), ok \in BOOLEAN : HandlerSettle(e, ok))
  /\ WF_vars(ResultSettle)
  /\ WF_vars(ChainAdvance)
  /\ WF_vars(Cleanup)
  /\ WF_vars(Attach)
  /\ WF_vars(DirectSettle)

\* ------------------------------------------------------------------------
\* pptx-tools: the handlers that read and change shapes
\* ------------------------------------------------------------------------
\* One handler runs at a time (serializeExecution); a run is one
\* PowerPoint.run batch on the document.

\* what a run leaves in lastRun
Run(tool, args, ok, result) ==
  [tool |-> tool, args |-> args, before |-> shapes, ok |-> ok,
   result |-> result]

\* context.sync() rejects the batch
SyncError == [error |-> "InvalidArgument"]

\* slides.getItemAt(index) finds a slide
SlideExists(index) == index = 0

\* shapes.items.map((shape, i) => ({index: i, id, name, type, text})) after
\* shapes.load("items/id,items/name,items/type") and the load of the text
\* frames (get_slide, get_selected_slide)
ShapesWithText(ss) ==
  [i \in 1..Len(ss) |->
     [index |-> i - 1, id |-> ss[i].id, name |-> ss[i].name,
      type |-> ss[i].type, text |-> ss[i].text]]

\* shapes.items.map((shape, i) => ({index: i, id, name, type})) after
\* shapes.load("items/id,items/name,items/type") (get_shapes)
ShapesListed(ss) ==
  [i \in 1..Len(ss) |->
     [index |-> i - 1, id |-> ss[i].id, name |-> ss[i].name,
      type |-> ss[i].type]]

\* get_slide
GetSlide(args) ==
  /\ lastRun' =
       IF SlideExists(args.index)
         THEN Run("get_slide", args, TRUE,
                  [index |-> args.index, shapes |-> ShapesWithText(shapes)])
         ELSE Run("get_slide", args, FALSE, SyncError)
  /\ UNCHANGED shapes
  /\ UNCHANGED <<bridgeVars, paneVars>>

\* get_selected_slide; selected: the indexes of the selected slides
GetSelectedSlide(selected) ==
  /\ lastRun' =
       IF selected = <<>>
         THEN Run("get_selected_slide", <<>>, TRUE, [selectedSlides |-> <<>>])
         ELSE Run("get_selected_slide", <<>>, TRUE,
                  [selectedSlideIds |-> selected,
                   firstSlide |-> [id |-> selected[1],
                                   shapes |-> ShapesWithText(shapes)]])
  /\ UNCHANGED shapes
  /\ UNCHANGED <<bridgeVars, paneVars>>

\* get_shapes
GetShapes(args) ==
  /\ lastRun' =
       IF SlideExists(args.index)
         THEN Run("get_shapes", args, TRUE,
                  [slideIndex |-> args.index, shapes |-> ShapesListed(shapes)])
         ELSE Run("get_shapes", args, FALSE, SyncError)
  /\ UNCHANGED shapes
  /\ UNCHANGED <<bridgeVars, paneVars>>

\* slide.shapes.getItemAt(args.shapeIndex as number): the 0-based indexes
\* the host may resolve the argument to. Without shapeIndex the argument is
\* undefined, which the API does not define: the host rejects it (-1: no
\* such item) or takes it for 0.
GetItemAtIndexes(args) ==
  IF "shapeIndex" \in DOMAIN args THEN {args.shapeIndex} ELSE {-1, 0}

\* the sequence without its item at 0-based index i
Without(ss, i) == [k \in 1..(Len(ss) - 1) |-> IF k <= i THEN ss[k] ELSE ss[k + 1]]

\* delete_shape
DeleteShape(args) ==
  /\ \E i \in GetItemAtIndexes(args) :
       IF SlideExists(args.slideIndex) /\ i \in 0..(Len(shapes) - 1)
         THEN /\ shapes' = Without(shapes, i)
              /\ lastRun' = Run("delete_shape", args, TRUE, [success |-> TRUE])
         ELSE /\ shapes' = shapes
              /\ lastRun' = Run("delete_shape", args, FALSE, SyncError)
  /\ UNCHANGED <<bridgeVars, paneVars>>

\* if (args.left !== undefined) shape.left = args.left, and so for top,
\* width and height
Moved(shape, args) ==
  [f \in DOMAIN shape |->
     IF f \in {"left", "top", "width", "height"} /\ f \in DOMAIN args
       THEN args[f] ELSE shape[f]]

\* set_shape_position
SetShapePosition(args) ==
  /\ \E i \in GetItemAtIndexes(args) :
       IF SlideExists(args.slideIndex) /\ i \in 0..(Len(shapes) - 1)
         THEN /\ shapes' = [shapes EXCEPT ![i + 1] = Moved(@, args)]
              /\ lastRun' = Run("set_shape_position", args, TRUE,
                   [success |-> TRUE,
                    left |-> Moved(shapes[i + 1], args).left,
                    top |-> Moved(shapes[i + 1], args).top,
                    width |-> Moved(shapes[i + 1], args).width,
                    height |-> Moved(shapes[i + 1], args).height])
         ELSE /\ shapes' = shapes
              /\ lastRun' = Run("set_shape_position", args, FALSE, SyncError)
  /\ UNCHANGED <<bridgeVars, paneVars>>

\* the arguments the handlers are called with
SlideArgs == {[index |-> 0], [index |-> 1]}
ShapeIds == {Shape(i).id : i \in 1..MaxShapes}
TargetArgs ==
  {[slideIndex |-> 0, shapeIndex |-> i] : i \in 0..(MaxShapes - 1)}
    \cup {[slideIndex |-> 0, shapeId |-> id] : id \in ShapeIds}
PositionArgs ==
  {[slideIndex |-> 0, shapeIndex |-> i, left |-> 50] : i \in 0..(MaxShapes - 1)}
    \cup {[slideIndex |-> 0, shapeId |-> id, left |-> 50] : id \in ShapeIds}

ToolNext ==
  \/ \E a \in SlideArgs : GetSlide(a)
  \/ \E sel \in {<<>>, <<0>>} : GetSelectedSlide(sel)
  \/ \E a \in SlideArgs : GetShapes(a)
  \/ \E a \in TargetArgs : DeleteShape(a)
  \/ \E a \in PositionArgs : SetShapePosition(a)

ToolSpec == Init /\ [][ToolNext]_vars

\* ------------------------------------------------------------------------
\* embed-sdk and useChatEmbed: the life of a UsableChatEmbed instance
\* ------------------------------------------------------------------------
\* ChatPane mounts and unmounts; every mount constructs an instance
\* (useChatEmbed, first effect) and every unmount destroys it. The iframe
\* posts READY, TOOL_CALL, REQUEST_TOKEN_REFRESH, ERROR and
\* CONVERSATION_CHANGED; these messages pass the origin and source checks
\* of handleMessage. onToolCall is the tool path modelled above: here it is
\* a promise that settles later. The reaction of a promise runs in the step
\* the promise settles in; the then, catch and finally reactions of a
\* TOOL_CALL are taken together. Every TOOL_CALL carries the requestId "r1".
\* sent, invoked and settled tell what the last step did.

\* the state the operators of this section transform, at the start of a step
EmbedState == [embeds |-> embeds, regs |-> regs, promises |-> promises,
               sent |-> <<>>, invoked |-> <<>>, settled |-> NoPromise]

\* if (token), if (accessTokenRef.current), if (validToken): null and the
\* empty string are falsy
Truthy(t) == t # Null /\ t # ""

\* new UsableChatEmbed(iframe, options); refresh: is
\* options.onTokenRefreshRequired given; timers: the requestIds with a
\* pending 30 s timer; readies: the number of READY messages the instance
\* has handled, destroyed: has destroy() been called (history)
NewEmbed(refresh) ==
  [listening |-> TRUE, isReady |-> FALSE, readyCallbacks |-> <<>>,
   cachedToken |-> Null, handledRequestIds |-> {}, timers |-> {},
   onTokenRefreshRequired |-> refresh, readies |-> 0,
   destroyed |-> FALSE]

\* instance i invokes one of its callbacks
Invoke(st, i, callback) ==
  [st EXCEPT !.invoked = Append(@, <<i, callback>>)]

\* this.iframe.contentWindow: null once ChatPane has unmounted and its
\* iframe element has left the document
ContentWindowOpen(i) == i = embedRef

\* postToIframe(message): contentWindow?.postMessage(message, target);
\* ready: had the instance received READY when it posted (history)
PostToIframe(st, i, type, payload) ==
  IF ContentWindowOpen(i)
    THEN [st EXCEPT !.sent = Append(@, [type |-> type, embed |-> i,
                                        payload |-> payload,
                                        ready |-> st.embeds[i].isReady])]
    ELSE st

\* setAuth(token)
SetAuth(st, i, token) ==
  PostToIframe([st EXCEPT !.embeds[i].cachedToken = token], i, "AUTH", token)

\* registerTools(tools)
RegisterTools(st, i) == PostToIframe(st, i, "REGISTER_TOOLS", "tools")

\* respondToToolCall(requestId, result)
RespondToToolCall(st, i, r, ok) ==
  PostToIframe(st, i, "TOOL_RESPONSE", IF ok THEN "success" ELSE "error")

\* a callback given to onReady is invoked: the one of useChatEmbed
\* registers the tools and sends accessTokenRef.current if there is one; a
\* callback of another client only runs
RunCallback(st, g) ==
  LET i == st.regs[g].embed
      s1 == Invoke([st EXCEPT !.regs[g].runs = @ + 1], i, "onReady")
      s2 == RegisterTools(s1, i)
  IN IF st.regs[g].kind # "mount" THEN s1
     ELSE IF Truthy(accessTokenRef) THEN SetAuth(s2, i, accessTokenRef)
     ELSE s2

\* this.readyCallbacks.forEach((cb) => cb())
RECURSIVE RunCallbacks(_, _)
RunCallbacks(st, cbs) ==
  IF cbs = <<>> THEN st ELSE RunCallbacks(RunCallback(st, Head(cbs)), Tail(cbs))

\* onReady(callback) on instance i: the callback becomes registration g
OnReady(st, i, kind) ==
  LET g == Len(st.regs) + 1
      s1 == [st EXCEPT !.regs = Append(@, [embed |-> i, kind |-> kind,
                                            runs |-> 0])]
  IN IF st.embeds[i].isReady
       THEN RunCallback(s1, g)
       ELSE [s1 EXCEPT !.embeds[i].readyCallbacks = Append(@, g)]

\* a pending promise an instance or the hook waits for
NewPromise(kind, i) == [kind |-> kind, embed |-> i, value |-> "pending"]

\* (mutant) readyCallbacks is not emptied after the callbacks ran
ClearedKeep(cbs) == cbs

\* this.readyCallbacks = []
Cleared(cbs) == <<>>

\* (mutant) the cached token is sent although a callback is configured
UsesCallbackNever(e) == FALSE

\* if (this.options.onTokenRefreshRequired)
UsesCallback(e) == e.onTokenRefreshRequired

\* handleMessage of instance i on a message of the iframe: the switch
HandleMessageOf(st, i, type, r) ==
  LET e == st.embeds[i] IN
  CASE type = "READY" ->
         LET s1 == [st EXCEPT !.embeds[i].isReady = TRUE,
                              !.embeds[i].readies = @ + 1]
             s2 == RunCallbacks(s1, e.readyCallbacks)
         IN [s2 EXCEPT !.embeds[i].readyCallbacks = Cleared(@)]
    [] type = "TOOL_CALL" ->
         IF r \in e.handledRequestIds THEN st
         ELSE Invoke([st EXCEPT
                        !.embeds[i].handledRequestIds = @ \cup {r},
                        !.promises = Append(@, NewPromise("tool", i))],
                     i, "onToolCall")
    [] type = "REQUEST_TOKEN_REFRESH" ->
         IF UsesCallback(e)
           THEN Invoke([st EXCEPT
                          !.promises = Append(@, NewPromise("refresh", i))],
                       i, "onTokenRefreshRequired")
         ELSE IF Truthy(e.cachedToken) THEN SetAuth(st, i, e.cachedToken)
         ELSE st
    [] type = "ERROR" -> Invoke(st, i, "onError")
    [] OTHER -> st

\* (mutant) destroy leaves the listener registered
RemoveEventListenerNoop(e) == e

\* window.removeEventListener("message", this.messageListener)
RemoveEventListener(e) == [e EXCEPT !.listening = FALSE]

\* the window dispatches a message event to the listeners that are
\* registered, in the order of their registration
RECURSIVE Dispatch(_, _, _, _)
Dispatch(st, i, type, r) ==
  IF i > Len(st.embeds) THEN st
  ELSE Dispatch(IF st.embeds[i].listening
                  THEN HandleMessageOf(st, i, type, r) ELSE st,
                i + 1, type, r)

\* the state st becomes the next state
Becomes(st) ==
  /\ embeds' = st.embeds
  /\ regs' = st.regs
  /\ promises' = st.promises
  /\ sent' = st.sent
  /\ invoked' = st.invoked
  /\ settled' = st.settled

\* the second effect of useChatEmbed, run for `accessToken`: it calls
\* ensureValidToken() if (accessToken && embedRef.current)
TokenEffect(st, token, ref) ==
  IF Truthy(token) /\ ref # 0
    THEN [st EXCEPT !.promises = Append(@, NewPromise("effect", 0))]
    ELSE st

\* ChatPane mounts with accessToken t: the first effect constructs the
\* instance and registers the READY callback, the second effect runs
Mount(t, refresh) ==
  /\ embedRef = 0
  /\ events < MaxEvents
  /\ events' = events + 1
  /\ LET i == Len(embeds) + 1
         s1 == [EmbedState EXCEPT !.embeds = Append(@, NewEmbed(refresh))]
         s2 == OnReady(s1, i, "mount")
     IN /\ Becomes(TokenEffect(s2, t, i))
        /\ embedRef' = i
        /\ accessTokenRef' = t
  /\ UNCHANGED <<bridgeVars, toolVars, authVars>>

\* ChatPane unmounts: embed.destroy(); embedRef.current = null
Unmount ==
  /\ embedRef # 0
  /\ Becomes([EmbedState EXCEPT !.embeds[embedRef] =
                             [RemoveEventListener(@) EXCEPT !.destroyed = TRUE]])
  /\ embedRef' = 0
  /\ UNCHANGED <<accessTokenRef, events>>
  /\ UNCHANGED <<bridgeVars, toolVars, authVars>>

\* ChatPane renders with another accessToken: the second effect runs again
TokenChange(t) ==
  /\ embedRef # 0
  /\ t # accessTokenRef
  /\ events < MaxEvents
  /\ events' = events + 1
  /\ accessTokenRef' = t
  /\ Becomes(TokenEffect(EmbedState, t, embedRef))
  /\ UNCHANGED embedRef
  /\ UNCHANGED <<bridgeVars, toolVars, authVars>>

\* another client of the instance calls onReady(callback)
ClientOnReady(i) ==
  /\ i \in 1..Len(embeds)
  /\ events < MaxEvents
  /\ events' = events + 1
  /\ Becomes(OnReady(EmbedState, i, "client"))
  /\ UNCHANGED <<embedRef, accessTokenRef>>
  /\ UNCHANGED <<bridgeVars, toolVars, authVars>>

\* the iframe posts a message and the window dispatches it
Receive(type, r) ==
  /\ events < MaxEvents
  /\ events' = events + 1
  /\ Becomes(Dispatch(EmbedState, 1, type, r))
  /\ UNCHANGED <<embedRef, accessTokenRef>>
  /\ UNCHANGED <<bridgeVars, toolVars, authVars>>

\* what a promise may settle with: ensureValidToken() gives the current
\* access token or null, or rejects; onToolCall fulfils or rejects
Outcomes(kind) ==
  IF kind = "tool" THEN {"ok", "err"} ELSE {accessTokenRef, Null, "rejected"}

\* the sequence without its item p
RemoveAt(seq, p) ==
  [k \in 1..(Len(seq) - 1) |-> IF k < p THEN seq[k] ELSE seq[k + 1]]

\* the reaction of promise p, which settles with v
\*   effect:  .then(validToken => { if (validToken && embedRef.current)
\*                                    embedRef.current.setAuth(validToken) })
\*   refresh: .then(token => { if (token) this.setAuth(token) })
\*   tool:    .then / .catch answer, .finally sets the 30 s timer
ReactionOf(st, p, v) ==
  LET q == st.promises[p]
      s1 == [st EXCEPT !.promises = RemoveAt(@, p),
                       !.settled = [q EXCEPT !.value = v]]
  IN CASE q.kind = "effect" ->
            IF v # "rejected" /\ Truthy(v) /\ embedRef # 0
              THEN SetAuth(s1, embedRef, v) ELSE s1
       [] q.kind = "refresh" ->
            IF v # "rejected" /\ Truthy(v)
              THEN SetAuth(s1, q.embed, v) ELSE s1
       [] OTHER ->
            [RespondToToolCall(s1, q.embed, "r1", v = "ok")
               EXCEPT !.embeds[q.embed].timers = @ \cup {"r1"}]

\* a pending promise settles and its reaction runs
Settle(p, v) ==
  /\ p \in 1..Len(promises)
  /\ v \in Outcomes(promises[p].kind)
  /\ Becomes(ReactionOf(EmbedState, p, v))
  /\ UNCHANGED <<embedRef, accessTokenRef, events>>
  /\ UNCHANGED <<bridgeVars, toolVars, authVars>>

\* setTimeout(() => this.handledRequestIds.delete(requestId), 30000) is due
DedupTimerFire(i, r) ==
  /\ i \in 1..Len(embeds)
  /\ r \in embeds[i].timers
  /\ Becomes([EmbedState EXCEPT !.embeds[i].timers = @ \ {r},
                                !.embeds[i].handledRequestIds = @ \ {r}])
  /\ UNCHANGED <<embedRef, accessTokenRef, events>>
  /\ UNCHANGED <<bridgeVars, toolVars, authVars>>

EmbedNext ==
  \/ \E t \in Tokens, refresh \in BOOLEAN : Mount(t, refresh)
  \/ Unmount
  \/ \E t \in Tokens : TokenChange(t)
  \/ \E i \in 1..Len(embeds) : ClientOnReady(i)
  \/ \E type \in KnownTypes : Receive(type, "r1")
  \/ \E p \in 1..Len(promises), v \in Tokens \cup {Null, "rejected", "ok", "err"} :
       Settle(p, v)
  \/ \E i \in 1..Len(embeds) : DedupTimerFire(i, "r1")

EmbedSpec == Init /\ [][EmbedNext]_vars

\* ------------------------------------------------------------------------
\* useAuth: the auth state, the tokens and the silent refresh
\* ------------------------------------------------------------------------
\* index.tsx renders App in React legacy mode (ReactDOM.render): a state
\* setter called outside a React event handler renders at once, so the
\* setters of one function give one render each; inside a React event
\* handler they are batched into one render.

\* what React renders after a setter ran
Render(rs, s, t) == Append(rs, <<s, t>>)

\* the refresh token the token endpoint issues to refresh k, to a login
StoredAtStart == "rt0"
IssuedTo(k) == <<"rt1", "rt2", "rt3", "rt4", "rt5", "rt6">>[k]
IssuedAtLogin == "rtL"

\* the access token the token endpoint issues to refresh k
AccessTokenOf(k) == IF k % 2 = 1 THEN "t1" ELSE "t2"

\* the record of a call of refreshAccessToken: rt, the token read from
\* storage; result, what the call returned; reacted: has the then callback
\* of the mount effect run
NewRefresh(origin, rt) ==
  [origin |-> origin, rt |-> rt,
   stage |-> IF rt = Null THEN "returned" ELSE "fetching",
   result |-> Null, reacted |-> FALSE]

\* refreshAccessToken() up to its await: const rt = getStoredRefreshToken();
\* if (!rt) return null; await exchangeRefreshToken(rt)
BeginRefresh(origin) ==
  refreshes' = Append(refreshes, NewRefresh(origin, stored))

\* Office.onReady: App is rendered, useAuth mounts and its mount effect
\* calls refreshAccessToken(); rt is what the last session left in
\* localStorage
OfficeReady(rt) ==
  /\ refreshes = <<>>
  /\ stored' = rt
  /\ refreshes' = <<NewRefresh("mount", rt)>>
  /\ rendered' = <<<<state, accessToken>>>>
  /\ UNCHANGED <<state, accessToken, refreshTimer, tokenFresh, dialog>>
  /\ UNCHANGED <<bridgeVars, toolVars, embedVars, loggedOut>>

\* clearRefreshToken(): localStorage.removeItem(RT_KEY)
ClearRefreshToken(cur, rt) == Null

\* (mutant) a failed refresh signs the user out
StateAfterFailureSignOut(s) == "unauthenticated"

\* the failure branch of refreshAccessToken does not call setState
StateAfterFailure(s) == s

\* exchangeRefreshToken settles and refreshAccessToken runs to its end:
\*   throws: fetch or res.json() rejects, the call rejects
\*   notok:  !res.ok, the call clears the refresh token and returns null
\*   ok:     the tokens are set; nrt is the refresh_token of the response
ExchangeSettle(k, outcome, nrt) ==
  LET at == AccessTokenOf(k) IN
  /\ k \in 1..Len(refreshes)
  /\ refreshes[k].stage = "fetching"
  /\ CASE outcome = "throws" ->
            /\ refreshes' = [refreshes EXCEPT ![k].stage = "rejected"]
            /\ rendered' = <<>>
            /\ UNCHANGED <<state, accessToken, stored, refreshTimer,
                           tokenFresh>>
       [] outcome = "notok" ->
            /\ refreshes' = [refreshes EXCEPT ![k].stage = "returned"]
            /\ stored' = ClearRefreshToken(stored, refreshes[k].rt)
            /\ state' = StateAfterFailure(state)
            /\ rendered' = <<>>
            /\ UNCHANGED <<accessToken, refreshTimer, tokenFresh>>
       [] OTHER ->
            /\ refreshes' = [refreshes EXCEPT ![k].stage = "returned",
                                              ![k].result = at]
            /\ accessToken' = at
            /\ state' = "authenticated"
            /\ rendered' = Render(Render(<<>>, state, at),
                                  "authenticated", at)
            /\ tokenFresh' = TRUE
            /\ stored' = IF nrt # Null THEN nrt ELSE stored
            /\ refreshTimer' = TRUE
  /\ UNCHANGED dialog
  /\ UNCHANGED <<bridgeVars, toolVars, embedVars, loggedOut>>

\* the mount effect: refreshAccessToken().then((token) => {
\*   if (!token) setState("unauthenticated") })
RestoreReaction ==
  /\ refreshes # <<>>
  /\ refreshes[1].stage = "returned"
  /\ ~refreshes[1].reacted
  /\ refreshes' = [refreshes EXCEPT ![1].reacted = TRUE]
  /\ IF refreshes[1].result = Null
       THEN /\ state' = "unauthenticated"
            /\ rendered' = Render(<<>>, "unauthenticated", accessToken)
       ELSE /\ state' = state
            /\ rendered' = <<>>
  /\ UNCHANGED <<accessToken, stored, refreshTimer, tokenFresh, dialog>>
  /\ UNCHANGED <<bridgeVars, toolVars, embedVars, loggedOut>>

\* the timer of scheduleRefresh is due: () => { refreshAccessToken() }
RefreshTimerFire ==
  /\ refreshTimer
  /\ Len(refreshes) < MaxRefreshes
  /\ refreshTimer' = FALSE
  /\ BeginRefresh("timer")
  /\ rendered' = <<>>
  /\ UNCHANGED <<state, accessToken, stored, tokenFresh, dialog>>
  /\ UNCHANGED <<bridgeVars, toolVars, embedVars, loggedOut>>

\* visibilitychange with the document visible: refreshAccessToken()
VisibilityChange ==
  /\ refreshes # <<>>
  /\ Len(refreshes) < MaxRefreshes
  /\ BeginRefresh("visibility")
  /\ rendered' = <<>>
  /\ UNCHANGED <<state, accessToken, stored, refreshTimer, tokenFresh,
                 dialog>>
  /\ UNCHANGED <<bridgeVars, toolVars, embedVars, loggedOut>>

\* time passes: the access token is no longer valid for more than 60 s
Expire ==
  /\ tokenFresh
  /\ tokenFresh' = FALSE
  /\ rendered' = <<>>
  /\ UNCHANGED <<state, accessToken, stored, refreshTimer, refreshes,
                 dialog>>
  /\ UNCHANGED <<bridgeVars, toolVars, embedVars, loggedOut>>

\* ChatPane, which App renders when authenticated, calls
\* ensureValidToken() when the current token is missing or about to
\* expire: return refreshAccessToken() (with a fresh token it returns the
\* token and changes nothing)
EnsureValidToken ==
  /\ state = "authenticated"
  /\ ~(accessToken # Null /\ tokenFresh)
  /\ Len(refreshes) < MaxRefreshes
  /\ BeginRefresh("ensure")
  /\ rendered' = <<>>
  /\ UNCHANGED <<state, accessToken, stored, refreshTimer, tokenFresh,
                 dialog>>
  /\ UNCHANGED <<bridgeVars, toolVars, embedVars, loggedOut>>

\* login(): the Sign in button (shown when unauthenticated) opens the dialog
Login ==
  /\ state = "unauthenticated"
  /\ ~dialog
  /\ dialog' = TRUE
  /\ rendered' = <<>>
  /\ UNCHANGED <<state, accessToken, stored, refreshTimer, tokenFresh,
                 refreshes>>
  /\ UNCHANGED <<bridgeVars, toolVars, embedVars, loggedOut>>

\* DialogMessageReceived: AUTH_SUCCESS with an access token, or AUTH_ERROR
DialogMessage(type, at, rt) ==
  /\ dialog
  /\ dialog' = FALSE
  /\ IF type = "AUTH_SUCCESS"
       THEN /\ accessToken' = at
            /\ state' = "authenticated"
            /\ rendered' = Render(Render(<<>>, state, at),
                                  "authenticated", at)
            /\ tokenFresh' = TRUE
            /\ refreshTimer' = TRUE
            /\ stored' = IF rt # Null THEN rt ELSE stored
            /\ loggedOut' = FALSE
       ELSE /\ rendered' = <<>>
            /\ UNCHANGED <<state, accessToken, stored, refreshTimer,
                           tokenFresh, loggedOut>>
  /\ UNCHANGED refreshes
  /\ UNCHANGED <<bridgeVars, toolVars, embedVars>>

\* DialogEventReceived: the user closed the dialog
DialogClosed ==
  /\ dialog
  /\ dialog' = FALSE
  /\ rendered' = <<>>
  /\ UNCHANGED <<state, accessToken, stored, refreshTimer, tokenFresh,
                 refreshes>>
  /\ UNCHANGED <<bridgeVars, toolVars, embedVars, loggedOut>>

\* logout(): clearRefreshToken(); setAccessToken(null);
\* setState("unauthenticated"); clearTimeout(refreshTimerRef.current).
\* batched: is it called from a React event handler
Logout(batched) ==
  /\ refreshes # <<>>
  /\ stored' = Null
  /\ accessToken' = Null
  /\ state' = "unauthenticated"
  /\ rendered' = IF batched THEN Render(<<>>, "unauthenticated", Null)
                 ELSE Render(Render(<<>>, state, Null),
                             "unauthenticated", Null)
  /\ refreshTimer' = FALSE
  /\ loggedOut' = TRUE
  /\ UNCHANGED <<tokenFresh, refreshes, dialog>>
  /\ UNCHANGED <<bridgeVars, toolVars, embedVars>>

AuthNext ==
  \/ \E rt \in {Null, StoredAtStart} : OfficeReady(rt)
  \/ \E k \in 1..Len(refreshes), outcome \in {"throws", "notok", "ok"},
        nrt \in {Null, "new"} :
       ExchangeSettle(k, outcome, IF nrt = Null THEN Null ELSE IssuedTo(k))
  \/ RestoreReaction
  \/ RefreshTimerFire
  \/ VisibilityChange
  \/ Expire
  \/ EnsureValidToken
  \/ Login
  \/ \E type \in {"AUTH_SUCCESS", "AUTH_ERROR"}, at \in Tokens,
        rt \in {Null, IssuedAtLogin} : DialogMessage(type, at, rt)
  \/ DialogClosed
  \/ \E batched \in BOOLEAN : Logout(batched)

AuthSpec == Init /\ [][AuthNext]_vars

\* Office.onReady fires, every call of the token endpoint settles (it
\* answers, or fetch rejects) and every promise reaction runs
AuthFairSpec ==
  /\ AuthSpec
  /\ WF_vars(\E rt \in {Null, StoredAtStart} : OfficeReady(rt))
  /\ WF_vars(\E k \in 1..Len(refreshes),
                outcome \in {"throws", "notok", "ok"}, nrt \in {Null, "new"} :
               ExchangeSettle(k, outcome,
                              IF nrt = Null THEN Null ELSE IssuedTo(k)))
  /\ WF_vars(RestoreReaction)

TypeOK ==
  /\ posted \in 0..MaxCalls
  /\ \A m \in Embeds : handledRequestIds[m] \subseteq RequestIds
  /\ executionChain \in 0..Len(execs)

\* ------------------------------------------------------------------------
\* Vocabulary of the properties
\* ------------------------------------------------------------------------
ExecIds == 1..Len(execs)
CallerIds == 1..Len(callers)

\* the handler of e was called and the promise it returned is not settled
HandlerInFlight(e) == execs[e].unit = "running" /\ execs[e].handler = Pending

\* the handler of e was called
HandlerBegun(e) == execs[e].unit \in {"running", "settled"}

\* ------------------------------------------------------------------------
\* Serial execution (serializeExecution)
\* ------------------------------------------------------------------------

\* C1: at every moment at most one handler started through
\* handlePptxToolCall is in flight (started, its promise not yet settled),
\* however many calls were submitted and whether earlier handlers
\* fulfilled or rejected.
C1_AtMostOneInFlight ==
  Cardinality({e \in ExecIds : HandlerInFlight(e)}) <= 1

\* C1 witness: a handler is in flight after an earlier handler rejected.
C1_Witness ==
  \E e, f \in ExecIds :
    /\ e < f
    /\ execs[e].handler.kind = "err"
    /\ HandlerInFlight(f)

C3_FailureIsolation ==
  /\ \A c \in CallerIds :
       (callers[c].exec # 0 /\ callers[c].outcome # Pending)
         => callers[c].outcome = execs[callers[c].exec].handler
  /\ \A e \in ExecIds :
       /\ execs[e].chain.kind # "err"
       /\ execs[e].unit # "skipped"
       /\ execs[e].handler \in {Pending, Fulfilled(e), Rejected(e)}
       /\ execs[e].result \in {Pending, execs[e].handler}
       /\ (Idle /\ e > 1 /\ execs[e - 1].handler # Pending) => HandlerBegun(e)

\* C3 witness: the first handler rejected and its caller got that reason;
\* the unit submitted after it ran and its caller got its own fulfilment.
C3_Witness ==
  \E c, d \in CallerIds :
    /\ callers[c].exec = 1 /\ callers[c].outcome = Rejected(1)
    /\ callers[d].exec = 2 /\ callers[d].outcome = Fulfilled(2)

\* ------------------------------------------------------------------------
\* Coalescing (inFlightCalls)
\* ------------------------------------------------------------------------

\* the step is a call of handlePptxToolCall through onToolCall
IsCall == Len(callers') = Len(callers) + 1
NewCall == callers'[Len(callers')]

\* c is an earlier call with the tool name and the serialised args of the
\* call made in this step
SameKeyAsNew(c) ==
  /\ callers[c].tool = NewCall.tool
  /\ JSONstringify(callers[c].args) = JSONstringify(NewCall.args)

NoHandlerTwice ==
  \A i, j \in 1..Len(handlerLog) : handlerLog[i] = handlerLog[j] => i = j

\* C4: a handlePptxToolCall call with the tool name and serialised args of
\* an earlier call whose promise has not settled starts no execution of its
\* own (the handler is invoked once for both), and the promises of calls
\* that share an execution settle with the same outcome.
C4_CoalesceStep ==
  /\ IsCall =>
       \A c \in CallerIds :
         (callers[c].exec # 0 /\ callers[c].outcome = Pending /\ SameKeyAsNew(c))
           => /\ NewCall.exec = callers[c].exec
              /\ execs' = execs
              /\ executionChain' = executionChain
  /\ NoHandlerTwice'
  /\ \A c, d \in 1..Len(callers') :
       (/\ callers'[c].exec = callers'[d].exec
        /\ callers'[c].exec # 0
        /\ callers'[c].outcome # Pending
        /\ callers'[d].outcome # Pending)
         => callers'[c].outcome = callers'[d].outcome

C4_Coalescing == [][C4_CoalesceStep]_vars

\* C4 witness: two calls with different requestIds on one embed shared one
\* execution, whose handler ran once, and both have settled.
C4_Witness ==
  \E c, d \in CallerIds :
    /\ c # d
    /\ callers[c].embed = callers[d].embed
    /\ callers[c].requestId # callers[d].requestId
    /\ callers[c].exec = callers[d].exec
    /\ callers[c].exec # 0
    /\ callers[c].outcome # Pending
    /\ callers[d].outcome # Pending

\* C5: a handlePptxToolCall call made after every earlier execution with
\* its tool name and args has settled queues a new execution of the
\* handler: coalescing lasts for the in-flight window only.
C5_ReexecuteStep ==
  (/\ IsCall
   /\ HasHandler(NewCall.tool)
   /\ \A e \in ExecIds :
        execs[e].key = KeyOf(NewCall.tool, NewCall.args)
          => execs[e].promise # Pending)
    => /\ Len(execs') = Len(execs) + 1
       /\ NewCall.exec = Len(execs')
       /\ execs'[Len(execs')].unit = "queued"
       /\ execs'[Len(execs')].key = KeyOf(NewCall.tool, NewCall.args)

C5_Reexecution == [][C5_ReexecuteStep]_vars

\* C5 witness: the handler has begun twice for one key, the second time
\* after the first execution settled with a rejection.
C5_Witness ==
  \E e, f \in ExecIds :
    /\ e < f
    /\ execs[e].key = execs[f].key
    /\ execs[e].promise.kind = "err"
    /\ HandlerBegun(f)

\* C6: inFlightCalls holds a key exactly when one execution for that key
\* is unsettled (between tasks: queued or running); there is at most one
\* such execution per key; the key is gone, after a fulfilment and after a
\* rejection, when a caller observes the settlement.
C6_InFlightExact ==
  /\ \A p \in inFlightCalls :
       /\ p[2] \in ExecIds
       /\ execs[p[2]].key = p[1]
       /\ execs[p[2]].promise = Pending
  /\ \A e \in ExecIds :
       execs[e].promise = Pending => <<execs[e].key, e>> \in inFlightCalls
  /\ \A e, f \in ExecIds :
       (/\ execs[e].key = execs[f].key
        /\ execs[e].promise = Pending
        /\ execs[f].promise = Pending) => e = f
  /\ Idle => \A e \in ExecIds :
       (execs[e].promise = Pending) <=> (execs[e].handler = Pending)
  /\ \A c \in CallerIds :
       (callers[c].exec # 0 /\ callers[c].outcome # Pending)
         => <<execs[callers[c].exec].key, callers[c].exec>> \notin inFlightCalls

\* C6 witness: a caller has observed a rejection and the key of its
\* execution is not in inFlightCalls.
C6_Witness ==
  \E c \in CallerIds :
    /\ callers[c].exec # 0
    /\ callers[c].outcome.kind = "err"
    /\ InFlightGet(inFlightCalls, execs[callers[c].exec].key) = 0

\* ------------------------------------------------------------------------
\* The bridge (UsableChatEmbed.handleMessage, case TOOL_CALL)
\* ------------------------------------------------------------------------
CallsOf(m, r) ==
  {c \in CallerIds : callers[c].embed = m /\ callers[c].requestId = r}

ResponsesTo(m, r) ==
  {i \in 1..Len(outbox) : outbox[i].embed = m /\ outbox[i].requestId = r}

HasResponded(c) == callers[c].stage \in {"responded", "finalised"}

C8_RedeliverySuppressed ==
  /\ \A c, d \in CallerIds :
       (/\ c < d
        /\ callers[c].embed = callers[d].embed
        /\ callers[c].requestId = callers[d].requestId)
         => callers[c].stage = "finalised"
  /\ \A m \in Embeds, r \in RequestIds :
       Cardinality(ResponsesTo(m, r)) <= Cardinality(CallsOf(m, r))
  /\ NoHandlerTwice

\* C8 witness: with one listener that has a handler, two TOOL_CALLs were
\* delivered, the second with the requestId of the first while the first
\* handler was running: there is still one call and one handler start.
C8_Witness ==
  /\ ~options["m2"]
  /\ posted = 2
  /\ dispatch = <<>>
  /\ Len(callers) = 1
  /\ Len(handlerLog) = 1
  /\ HandlerInFlight(1)

TimersOf(m, r) == {t \in timers : t.embed = m /\ t.requestId = r}

C10_EventuallyRemoved ==
  \A m \in Embeds, r \in RequestIds :
    (r \in handledRequestIds[m]) ~> (r \notin handledRequestIds[m])

\* ------------------------------------------------------------------------
\* The fingerprint of a call (handlePptxToolCall, line 940)
\* ------------------------------------------------------------------------

\* C11: two calls share one execution only if their tool names are equal
\* and their args are structurally equal: a call is never attached to an
\* in-flight execution whose tool name or args differ from its own.
C11_SharedOnlyIfEqual ==
  \A c, d \in CallerIds :
    (callers[c].exec # 0 /\ callers[c].exec = callers[d].exec)
      => /\ callers[c].tool = callers[d].tool
         /\ callers[c].args = callers[d].args

BegunAt(e) ==
  IF \E i \in 1..Len(handlerLog) : handlerLog[i] = e
    THEN CHOOSE i \in 1..Len(handlerLog) : handlerLog[i] = e
    ELSE 0

\* every call made so far was made before any handler had begun, and no
\* two of them have the same tool and args
BurstOfDistinct ==
  /\ \A c \in CallerIds :
       HasHandler(callers[c].tool) /\ callers[c].begunBefore = 0
  /\ \A c, d \in CallerIds :
       c < d => \/ callers[c].tool # callers[d].tool
                \/ callers[c].args # callers[d].args

\* C13: calls with pairwise distinct arguments, all submitted before any of
\* them has started, each reach their handler exactly once (each has an
\* execution of its own, whose handler begins once), one after another in
\* arrival order (a later one begins after the earlier one has settled, and
\* does begin once all before it have settled), and no two handlers are in
\* flight at the same time.
C13_BurstSerial ==
  BurstOfDistinct =>
    /\ Cardinality({e \in ExecIds : HandlerInFlight(e)}) <= 1
    /\ NoHandlerTwice
    /\ \A c, d \in CallerIds :
         c < d =>
           LET e == callers[c].exec
               f == callers[d].exec
           IN /\ e # f
              /\ HandlerBegun(f) =>
                   /\ BegunAt(e) > 0
                   /\ BegunAt(e) < BegunAt(f)
                   /\ execs[e].handler # Pending
              /\ (Idle /\ \A g \in 1..(f - 1) : execs[g].handler # Pending)
                   => HandlerBegun(f)

\* C14: every unit submitted to the serial queue eventually begins, given
\* that every unit that has begun settles (QueueFairSpec), whether the
\* units before it fulfil or reject: rejections never leave executionChain
\* or inFlightCalls in a state that keeps a later unit from starting.
C14_EventuallyBegins ==
  \A e \in 1..MaxDirect :
    (Len(execs) >= e) ~> (Len(execs) >= e /\ HandlerBegun(e))

\* C14 witness: the first unit rejected, and the unit queued behind it
\* while it was unsettled has begun.
C14_Witness ==
  /\ Len(execs) >= 2
  /\ execs[1].handler.kind = "err"
  /\ execs[2].prev = 1
  /\ HandlerBegun(2)
  /\ \E d \in CallerIds : callers[d].exec = 2 /\ callers[d].begunBefore = 1

\* the promise the handler of call c returned (the unknown-tool rejection
\* when there is no handler)
HandlerPromise(c) ==
  IF callers[c].exec = 0 THEN UnknownToolError
  ELSE execs[callers[c].exec].handler

\* the TOOL_RESPONSE i answers call c: requestId of c, success exactly when
\* the handler promise fulfilled, carrying its result or its failure reason
Answers(i, c) ==
  /\ outbox[i].embed = callers[c].embed
  /\ outbox[i].requestId = callers[c].requestId
  /\ HandlerPromise(c) # Pending
  /\ outbox[i].success = (HandlerPromise(c).kind = "ok")
  /\ outbox[i].src = HandlerPromise(c).src

\* C15: every TOOL_RESPONSE carries success: true with the result exactly
\* when the handler promise of its call fulfilled, and success: false with
\* the failure reason exactly when it rejected; a failed call is never
\* executed again: every execution was created by a call, and no handler
\* begins twice.
C15_ResponseMatchesOutcome ==
  /\ \A i \in 1..Len(outbox) : \E c \in CallerIds : HasResponded(c) /\ Answers(i, c)
  /\ \A c \in CallerIds : HasResponded(c) => \E i \in 1..Len(outbox) : Answers(i, c)
  /\ \A e \in ExecIds : \E c \in CallerIds : callers[c].exec = e
  /\ Len(execs) <= Len(callers)
  /\ NoHandlerTwice

\* C15 witness: the only call made was answered with success: false and the
\* reason of its handler's rejection; its retention has ended, and its
\* handler has run once.
C15_Witness ==
  /\ Len(callers) = 1
  /\ execs # <<>>
  /\ handlerLog = <<1>>
  /\ Len(outbox) = 1
  /\ ~outbox[1].success
  /\ outbox[1].src = 1
  /\ callers[1].requestId \notin handledRequestIds[callers[1].embed]

\* C16: a handlePptxToolCall call with a tool name that has no registered
\* handler leaves inFlightCalls and executionChain unchanged, queues no
\* execution and invokes no handler, and its promise rejects with the
\* unknown-tool error; no execution ever exists for such a tool name.
C16_UnknownToolStep ==
  /\ (IsCall /\ NewCall.tool \notin ToolNames)
       => /\ inFlightCalls' = inFlightCalls
          /\ executionChain' = executionChain
          /\ execs' = execs
          /\ handlerLog' = handlerLog
          /\ NewCall.exec = 0
          /\ microtasks' = Append(microtasks, Job("callerSettle", Len(callers')))
  /\ \A c \in 1..Len(callers') :
       callers'[c].tool \notin ToolNames
         => /\ callers'[c].exec = 0
            /\ callers'[c].outcome \in {Pending, UnknownToolError}
            /\ callers'[c].stage # "awaiting"
                 => callers'[c].outcome = UnknownToolError
  /\ \A e \in 1..Len(execs') : execs'[e].tool \in ToolNames

C16_UnknownTool == [][C16_UnknownToolStep]_vars

\* C16 witness: a call for an unknown tool was made while an execution was
\* in flight and has been rejected with the unknown-tool error; the other
\* execution is still registered and is still the tail of the chain.
C16_Witness ==
  \E c \in CallerIds :
    /\ callers[c].tool \notin ToolNames
    /\ callers[c].outcome = UnknownToolError
    /\ callers[c].begunBefore = 1
    /\ executionChain = 1
    /\ HandlerInFlight(1)
    /\ InFlightGet(inFlightCalls, execs[1].key) = 1

\* ------------------------------------------------------------------------
\* Validation of inbound messages (handleMessage, lines 1065-1080, 1138)
\* ------------------------------------------------------------------------

\* the step is one listener running handleMessage on the delivery at the
\* head of dispatch
Handles == dispatch # <<>> /\ dispatch' = Tail(dispatch)

\* nothing of the embeds, of the queue or of the outbox changes
NoEffect ==
  UNCHANGED <<microtasks, options, handledRequestIds, timers, inFlightCalls,
              executionChain, execs, callers, outbox, handlerLog,
              admittedAge>>

\* the origin of d is not the one the embed is configured with (and that is
\* not "*"), or d does not come from the embed's iframe window
Foreign(d) ==
  \/ /\ IframeOriginOf(options, d.embed) # "*"
     /\ d.origin # IframeOriginOf(options, d.embed)
  \/ d.source # ContentWindow(d.embed)

\* C17: an inbound message whose origin differs from the configured
\* iframeOrigin (when that is not "*") or whose source is not the embed's
\* own iframe window changes no embed state, invokes no callback and causes
\* no outbound message.
C17_ForeignStep == (Handles /\ Foreign(Head(dispatch))) => NoEffect

C17_ForeignIgnored == [][C17_ForeignStep]_vars

\* C17 witness: while a handler is running, the first listener, configured
\* with IFRAME_ORIGIN, has been through a TOOL_CALL from another origin that
\* carries a requestId it never saw: it holds no new requestId and made no
\* call; the delivery to the second listener is still to come.
C17_Witness ==
  /\ Len(dispatch) = 1
  /\ Head(dispatch).embed = "m2"
  /\ Head(dispatch).origin = OtherOrigin
  /\ Head(dispatch).type = "TOOL_CALL"
  /\ Head(dispatch).requestId = "r2"
  /\ IframeOriginOf(options, "m1") = IFRAME_ORIGIN
  /\ handledRequestIds["m1"] = {"r1"}
  /\ HandlerInFlight(1)
  /\ \A c \in CallerIds : callers[c].requestId = "r1"

\* a message with a type tag that handleMessage has no case for, from the
\* embed's iframe and origin
UnknownTag(d) ==
  /\ ~Foreign(d)
  /\ d.type # ""
  /\ d.type \notin KnownTypes

\* C18: an inbound message that passes origin and source validation but
\* carries an unrecognised type tag is ignored: the listener returns (the
\* next listener is served), no state changes and no outbound message is
\* sent.
C18_UnknownTagStep == (Handles /\ UnknownTag(Head(dispatch))) => NoEffect

C18_UnknownTagIgnored == [][C18_UnknownTagStep]_vars

\* C18 witness: while a handler is running, the first listener has been
\* through a message from its iframe with the unknown tag PING and a
\* requestId it never saw, and nothing came of it.
C18_Witness ==
  /\ Len(dispatch) = 1
  /\ Head(dispatch).embed = "m2"
  /\ Head(dispatch).origin = IFRAME_ORIGIN
  /\ Head(dispatch).source = "iframe"
  /\ Head(dispatch).type = "PING"
  /\ Head(dispatch).requestId = "r2"
  /\ handledRequestIds["m1"] = {"r1"}
  /\ HandlerInFlight(1)
  /\ \A c \in CallerIds : callers[c].requestId = "r1"

\* ------------------------------------------------------------------------
\* The shape tools (ToolSpec)
\* ------------------------------------------------------------------------

\* the shapes a result lists
Listed(result) ==
  IF "shapes" \in DOMAIN result THEN result.shapes
  ELSE IF "firstSlide" \in DOMAIN result THEN result.firstSlide.shapes
  ELSE <<>>

\* C19: get_slide, get_selected_slide and get_shapes return left, top,
\* width and height, those of the shape in the document, for every shape
\* they list.
C19_ShapesCarryPosition ==
  (lastRun.tool \in {"get_slide", "get_selected_slide", "get_shapes"}
     /\ lastRun.ok)
    => \A i \in 1..Len(Listed(lastRun.result)) :
         LET r == Listed(lastRun.result)[i]
         IN /\ {"left", "top", "width", "height"} \subseteq DOMAIN r
            /\ r.left = shapes[i].left
            /\ r.top = shapes[i].top
            /\ r.width = shapes[i].width
            /\ r.height = shapes[i].height

\* the shape with this id is in the sequence
HasShape(ss, id) == \E k \in 1..Len(ss) : ss[k].id = id

\* C20: delete_shape and set_shape_position called with a shapeId act on
\* the shape that has that id, wherever earlier deletions have moved it:
\* delete_shape removes that shape and no other, set_shape_position moves
\* that shape and no other, and a call for an id that is not on the slide
\* changes nothing.
C20_TargetsShapeId ==
  (lastRun.tool \in {"delete_shape", "set_shape_position"}
     /\ "shapeId" \in DOMAIN lastRun.args)
    => LET id == lastRun.args.shapeId
           before == lastRun.before
       IN IF HasShape(before, id)
            THEN /\ lastRun.ok
                 /\ lastRun.tool = "delete_shape"
                      => shapes = SelectSeq(before, LAMBDA x : x.id # id)
                 /\ lastRun.tool = "set_shape_position"
                      => shapes = [k \in 1..Len(before) |->
                                     IF before[k].id = id
                                       THEN Moved(before[k], lastRun.args)
                                       ELSE before[k]]
            ELSE shapes = before

\* ------------------------------------------------------------------------
\* C21. When one TOOL_CALL message is received by two listeners that both
\* have onToolCall (double mount), the two invocations share one execution,
\* whose handler begins at most once; once both have answered, the window
\* holds a TOOL_RESPONSE of each listener for the requestId, and the two
\* carry the same outcome.
\* ------------------------------------------------------------------------
SameMessage(c1, c2) ==
  /\ c1 # c2
  /\ callers[c1].msg = callers[c2].msg
  /\ callers[c1].embed # callers[c2].embed

Answered(c) == callers[c].stage \in {"responded", "finalised"}

Unsettled(e) == execs[e].unit = "running" /\ execs[e].handler = Pending

C22_BlockedWhileUnsettled ==
  \A e \in 1..Len(execs) :
    Unsettled(e) =>
      /\ \A f \in 1..Len(execs) : f > e => execs[f].unit = "queued"
      /\ \A c \in 1..Len(callers) :
            (callers[c].exec >= e) => callers[c].stage = "awaiting"

\* a handler is running unsettled, a later unit is queued behind it, and
\* a call waits for each of them
C22_Witness ==
  \E e, f \in 1..Len(execs) :
    /\ Unsettled(e) /\ f > e /\ Idle /\ dispatch = <<>>
    /\ \E c, d \in 1..Len(callers) :
          callers[c].exec = e /\ callers[d].exec = f

\* C23. useChatEmbed posts no REGISTER_TOOLS and no AUTH message to the
\* iframe before READY has been received from it: every such message is
\* posted by an instance that has handled READY.
C23_NothingBeforeReady ==
  \A k \in 1..Len(sent) :
    sent[k].type \in {"REGISTER_TOOLS", "AUTH"} => sent[k].ready

\* the registrations of instance i that wait in its readyCallbacks
Waiting(i) ==
  {embeds[i].readyCallbacks[k] : k \in 1..Len(embeds[i].readyCallbacks)}

\* C24. Every callback passed to onReady is invoked exactly once: it has
\* run once exactly when its instance has received READY (at the call of
\* onReady if READY had been received, otherwise at the first READY), it
\* waits in readyCallbacks exactly while it has not run, and no later READY
\* runs it again.
C24_ReadyCallbackOnce ==
  \A g \in 1..Len(regs) :
    /\ regs[g].runs <= 1
    /\ regs[g].runs = 1 <=> embeds[regs[g].embed].isReady
    /\ regs[g].runs = 0 <=> g \in Waiting(regs[g].embed)

\* a callback that ran at the first READY, after a second READY
C24_Witness ==
  \E g \in 1..Len(regs) :
    regs[g].runs = 1 /\ embeds[regs[g].embed].readies >= 2

\* the tokens of the AUTH messages among the messages ms
AuthTokens(ms) == {ms[k].payload : k \in {j \in 1..Len(ms) : ms[j].type = "AUTH"}}

\* C25. On REQUEST_TOKEN_REFRESH an AUTH message is sent only with a
\* non-null token. With onTokenRefreshRequired configured the handler sends
\* nothing itself and calls the callback, and when the callback's promise
\* settles AUTH carries the token it returned, or nothing is sent if it
\* returned none; without the callback AUTH carries the token cached by
\* the last setAuth, or nothing is sent if none is cached.
C25_RefreshAuth ==
  [][/\ (Receive("REQUEST_TOKEN_REFRESH", "r1") /\ embedRef # 0) =>
          LET e == embeds[embedRef] IN
          IF e.onTokenRefreshRequired
            THEN /\ sent' = <<>>
                 /\ invoked' = <<<<embedRef, "onTokenRefreshRequired">>>>
            ELSE /\ invoked' = <<>>
                 /\ Len(sent') = Len(SelectSeq(sent', LAMBDA m : m.type = "AUTH"))
                 /\ AuthTokens(sent') =
                      IF Truthy(e.cachedToken) THEN {e.cachedToken} ELSE {}
      /\ settled'.kind = "refresh" =>
          LET v == settled'.value IN
          /\ Len(sent') <= 1
          /\ AuthTokens(sent') =
               IF v # "rejected" /\ Truthy(v) /\ ContentWindowOpen(settled'.embed)
                 THEN {v} ELSE {}
          /\ \A k \in 1..Len(sent') : sent'[k].type = "AUTH"]_vars

\* the refresh callback returned a token and AUTH was sent with it
C25_Witness ==
  /\ settled.kind = "refresh"
  /\ settled.value \in Tokens
  /\ Len(sent) = 1
  /\ sent[1].type = "AUTH" /\ sent[1].payload = settled.value

\* C26. After destroy() no inbound message changes the state of the
\* instance, invokes one of its callbacks or makes it post a message.
C26_DestroyedIsDeaf ==
  [][(\E type \in KnownTypes : Receive(type, "r1")) =>
       \A i \in 1..Len(embeds) :
         embeds[i].destroyed =>
           /\ embeds'[i] = embeds[i]
           /\ \A k \in 1..Len(invoked') : invoked'[k][1] # i
           /\ \A k \in 1..Len(sent') : sent'[k].embed # i
           /\ \A k \in 1..Len(promises') :
                promises'[k].embed = i => k <= Len(promises)]_vars

\* a READY that arrived after the first instance was destroyed: the second
\* instance has handled it, the first has not
C26_Witness ==
  \E i, j \in 1..Len(embeds) :
    /\ embeds[i].destroyed /\ ~embeds[i].isReady /\ embeds[i].readies = 0
    /\ j > i /\ embeds[j].readies >= 1

\* C27. The auth state starts as "restoring" and eventually leaves it: to
\* "authenticated" if the stored refresh token is exchanged, to
\* "unauthenticated" if there is no stored token or the exchange does not
\* succeed.
C27_LeavesRestoring == (state = "restoring") ~> (state # "restoring")

\* C28. Whenever the auth state is "authenticated", accessToken is not
\* null: in the current state of useAuth and in every render of App.
C28_AuthenticatedHasToken ==
  /\ state = "authenticated" => accessToken # Null
  /\ \A k \in 1..Len(rendered) :
       rendered[k][1] = "authenticated" => rendered[k][2] # Null

\* in this step call k of refreshAccessToken returns null after a failed
\* exchange
FailedAt(k) ==
  /\ refreshes[k].stage = "fetching"
  /\ refreshes'[k].stage = "returned"
  /\ refreshes'[k].result = Null

C30_ClearsOnlyItsOwn ==
  [][\A k \in 1..Len(refreshes) :
       FailedAt(k) =>
         stored' = IF stored = refreshes[k].rt THEN Null ELSE stored]_vars

\* C31. After logout(), and until a login succeeds, the state is
\* "unauthenticated", accessToken is null, no refresh token is stored and no
\* refresh timer is pending, also when a token refresh was in flight at the
\* moment logout() was called.
C31_LoggedOutStays ==
  loggedOut =>
    /\ state = "unauthenticated"
    /\ accessToken = Null
    /\ stored = Null
    /\ ~refreshTimer

====
